---- MODULE Spec2Model ----
(***************************************************************************)
(* Model of threatexchange/cli/config_cmd.py: the collaboration edit /     *)
(* delete / import commands over the persisted collab store, and the       *)
(* extensions add / remove commands over the persisted extension list.     *)
(*                                                                         *)
(* One step of Spec is one CLI invocation: argparse, the command's         *)
(* __init__, then its execute().  Python values are modelled as follows:   *)
(*   Optional[T]   a sequence of length <= 1 (<<>> is None)                *)
(*   dict          a function from the keys present to their values        *)
(*   str           a record: [raw |-> "a"] is the text a; [json |-> d] is  *)
(*                 the text of the JSON object d; ListJson is the text of  *)
(*                 a JSON array                                            *)
(*   an outcome    [exc, msg, code]: the exception that ended the command  *)
(*                 ("none" when it returned) and the returncode it carries *)
(***************************************************************************)
EXTENDS Integers, FiniteSets, Sequences, TLC

VARIABLES store, extensions, op, result, args, resolved

vars == <<store, extensions, op, result, args, resolved>>

(***************************************************************************)
(* Bounds                                                                  *)
(***************************************************************************)
MaxCollabs == 2
MaxGroup == 2
MaxX == 2
MaxManifestApis == 2

(***************************************************************************)
(* Strings and JSON                                                        *)
(***************************************************************************)
Str(s) == [raw |-> s]
ListJson == [raw |-> "[]"]
JsonText(d) == [json |-> d]

PlainNames == {Str("a"), Str("b")}

None == <<>>
Some(v) == <<v>>
Opt(S) == {None} \cup {Some(v) : v \in S}

EmptyDict == [k \in {} |-> TRUE]
Put(d, k, v) == [x \in DOMAIN d \cup {k} |-> IF x = k THEN v ELSE d[x]]
Pop(d, k) == [x \in DOMAIN d \ {k} |-> d[x]]

\* json.loads: "decode_error" for a text that is not JSON (a bare word such
\* as a is not), "list" for JSON that is not an object, else the dict.
JsonLoads(s) ==
    IF "json" \in DOMAIN s THEN [kind |-> "dict", val |-> s.json]
    ELSE IF s = ListJson THEN [kind |-> "list", val |-> EmptyDict]
    ELSE [kind |-> "decode_error", val |-> EmptyDict]

\* The JSON object with the given optional members.
JsonObject(n, e, a, x) ==
    [k \in (IF n = None THEN {} ELSE {"name"})
           \cup (IF e = None THEN {} ELSE {"enabled"})
           \cup (IF a = None THEN {} ELSE {"api"})
           \cup (IF x = None THEN {} ELSE {"x"}) |->
        CASE k = "name" -> n[1]
          [] k = "enabled" -> e[1]
          [] k = "api" -> a[1]
          [] k = "x" -> x[1]]

(***************************************************************************)
(* Outcomes                                                                *)
(***************************************************************************)
Ok == [exc |-> "none", msg |-> <<>>, code |-> "0"]
CommandError(msg, code) == [exc |-> "CommandError", msg |-> msg, code |-> code]
Uncaught(exc, msg) == [exc |-> exc, msg |-> msg, code |-> "traceback"]
ArgparseError == [exc |-> "SystemExit", msg |-> <<"argument is required">>, code |-> "2"]

(***************************************************************************)
(* The registered APIs and their config classes (dataclasses).  A config   *)
(* class is the sequence of its dataclass fields; each field has a name,   *)
(* whether it is an __init__ parameter, and whether it has a default.      *)
(*   fb_threatexchange  FBThreatExchangeCollabConfig: api is init=False,   *)
(*                      privacy_group has no default                       *)
(*   base_api           an API that keeps the base config class: name,     *)
(*                      api and enabled are all __init__ parameters        *)
(*   x_api              an API whose config adds a field x with a default  *)
(* __init__ tells the two kinds of api field apart (field.init), and       *)
(* execute_import builds the fb_threatexchange config without an api.      *)
(***************************************************************************)
FB == "fb_threatexchange"
BASE == "base_api"
XAPI == "x_api"

Field(n, i, d) == [name |-> n, init |-> i, hasDefault |-> d]

ConfigClass(api) ==
    CASE api = FB ->
           << Field("name", TRUE, FALSE), Field("api", FALSE, TRUE),
              Field("enabled", TRUE, TRUE), Field("privacy_group", TRUE, FALSE) >>
      [] api = BASE ->
           << Field("name", TRUE, FALSE), Field("api", TRUE, FALSE),
              Field("enabled", TRUE, FALSE) >>
      [] api = XAPI ->
           << Field("name", TRUE, FALSE), Field("api", TRUE, FALSE),
              Field("enabled", TRUE, TRUE), Field("x", TRUE, TRUE) >>

FieldNames(api) == {ConfigClass(api)[i].name : i \in DOMAIN ConfigClass(api)}

\* The defaults the config classes declare.
DefaultOf(api, fname) ==
    CASE fname = "api" -> api
      [] fname = "enabled" -> TRUE
      [] fname = "x" -> 0

_IGNORE_FIELDS == {"name", "api", "enabled"}

_is_argument_field(field) ==
    IF ~field.init THEN FALSE
    ELSE IF field.name \in _IGNORE_FIELDS THEN FALSE
    ELSE TRUE

\* init_argparse / _add_argument: one flag per argument field, required iff
\* the field has no default.
ArgumentFlags(api) ==
    {ConfigClass(api)[i].name :
        i \in {j \in DOMAIN ConfigClass(api) : _is_argument_field(ConfigClass(api)[j])}}

FlagRequired(field) == ~field.hasDefault

\* argparse rejects a command line that lacks a required flag (exit 2).
ArgparseAccepts(cmd) ==
    LET fields == ConfigClass(cmd.api) IN
    \A i \in DOMAIN fields :
        (_is_argument_field(fields[i]) /\ FlagRequired(fields[i]))
            => cmd.namespace[fields[i].name] # None

(***************************************************************************)
(* _UpdateCollabCommand.__init__: the edit-set resolver.  Returns the      *)
(* exception it raised ("none" if it returned) and the command's           *)
(* attributes collab_name, create and edit_kwargs.                         *)
(***************************************************************************)
\* Mutant of FieldLoop: a typed flag only fills a key the edit set lacks.
RECURSIVE FieldLoop_KeepsEarlier(_, _, _, _)
FieldLoop_KeepsEarlier(fields, i, namespace, kw) ==
    IF i > Len(fields) THEN [exc |-> "none", key |-> "", edit_kwargs |-> kw]
    ELSE LET field == fields[i] IN
         IF ~field.init THEN
             IF field.name = "api" THEN
                 IF "api" \in DOMAIN kw
                 THEN FieldLoop_KeepsEarlier(fields, i + 1, namespace, Pop(kw, "api"))
                 ELSE [exc |-> "KeyError", key |-> "api", edit_kwargs |-> kw]
             ELSE FieldLoop_KeepsEarlier(fields, i + 1, namespace, kw)
         ELSE IF field.name \in _IGNORE_FIELDS THEN
             FieldLoop_KeepsEarlier(fields, i + 1, namespace, kw)
         ELSE LET val == namespace[field.name] IN
              IF val # None /\ field.name \notin DOMAIN kw
              THEN FieldLoop_KeepsEarlier(fields, i + 1, namespace,
                                          Put(kw, field.name, val[1]))
              ELSE FieldLoop_KeepsEarlier(fields, i + 1, namespace, kw)

RECURSIVE FieldLoop(_, _, _, _)
FieldLoop(fields, i, namespace, kw) ==
    IF i > Len(fields) THEN [exc |-> "none", key |-> "", edit_kwargs |-> kw]
    ELSE LET field == fields[i] IN
         IF ~field.init THEN
             IF field.name = "api" THEN
                 IF "api" \in DOMAIN kw
                 THEN FieldLoop(fields, i + 1, namespace, Pop(kw, "api"))
                 ELSE [exc |-> "KeyError", key |-> "api", edit_kwargs |-> kw]
             ELSE FieldLoop(fields, i + 1, namespace, kw)
         ELSE IF field.name \in _IGNORE_FIELDS THEN
             FieldLoop(fields, i + 1, namespace, kw)
         ELSE LET val == namespace[field.name] IN
              IF val # None
              THEN FieldLoop(fields, i + 1, namespace, Put(kw, field.name, val[1]))
              ELSE FieldLoop(fields, i + 1, namespace, kw)

UpdateCollabInit(cmd) ==
    LET loaded == JsonLoads(cmd.collab_name)
        failed(e, k) == [exc |-> e, key |-> k, collab_name |-> cmd.collab_name,
                         create |-> cmd.create, edit_kwargs |-> EmptyDict]
    IN
    IF cmd.is_json /\ loaded.kind = "decode_error" THEN failed("JSONDecodeError", "")
    ELSE IF cmd.is_json /\ loaded.kind = "list" THEN failed("TypeError", "")
    ELSE IF cmd.is_json /\ "name" \notin DOMAIN loaded.val THEN failed("KeyError", "name")
    ELSE
    LET kw0 == IF cmd.is_json THEN loaded.val ELSE EmptyDict
        self_collab_name == IF cmd.is_json THEN kw0["name"] ELSE cmd.collab_name
        kw1 == IF cmd.create
               THEN Put(Put(Put(kw0, "name", cmd.collab_name), "enabled", TRUE),
                        "api", cmd.api)
               ELSE kw0
        kw2 == IF cmd.enable # None
               THEN Put(kw1, "enabled", cmd.enable[1] # 0)
               ELSE kw1
        looped == FieldLoop(ConfigClass(cmd.api), 1, cmd.namespace, kw2)
    IN [exc |-> looped.exc, key |-> looped.key, collab_name |-> self_collab_name,
        create |-> cmd.create, edit_kwargs |-> looped.edit_kwargs]

(***************************************************************************)
(* The collab store (settings.get_collab, settings._state.update_collab,   *)
(* settings._state.delete_collab): a set of config records, at most one    *)
(* per name.  A record is the dict of the instance's attributes plus cls,  *)
(* the API whose config class it is an instance of.                        *)
(***************************************************************************)
get_collab(st, name) ==
    IF \E r \in st : r.name = name
    THEN Some(CHOOSE r \in st : r.name = name)
    ELSE None

update_collab(st, collab) ==
    {r \in st : r.name # collab.name} \cup {collab}

delete_collab(st, collab) ==
    {r \in st : r.name # collab.name}

\* cfg_cls(**kwargs): the dataclass constructor.  TypeError on a keyword
\* that is no __init__ parameter and on a missing parameter without default.
ConstructorAccepts(api, kwargs) ==
    LET fields == ConfigClass(api) IN
    /\ \A k \in DOMAIN kwargs : \E i \in DOMAIN fields : fields[i].init /\ fields[i].name = k
    /\ \A i \in DOMAIN fields :
          (fields[i].init /\ ~fields[i].hasDefault) => fields[i].name \in DOMAIN kwargs

Construct(api, kwargs) ==
    [k \in {"cls"} \cup FieldNames(api) |->
        IF k = "cls" THEN api
        ELSE IF k \in DOMAIN kwargs THEN kwargs[k]
        ELSE DefaultOf(api, k)]

\* for name, val in self.edit_kwargs.items(): setattr(existing, name, val)
SetAttrs(existing, edit_kwargs) ==
    [k \in DOMAIN existing \cup DOMAIN edit_kwargs |->
        IF k \in DOMAIN edit_kwargs THEN edit_kwargs[k] ELSE existing[k]]

Done(res, st) == [result |-> res, store |-> st]

\* Mutant of UpdateCollabExecute: --create on an existing name edits it.
UpdateCollabExecute_NoDuplicateCheck(self, api, st) ==
    LET existing == get_collab(st, self.collab_name) IN
    IF existing # None THEN
        IF existing[1].api # api THEN
            Done(CommandError(<<"the existing collab is for the api, delete that one first",
                                existing[1].api>>, "2"), st)
        ELSE IF existing[1].cls # api THEN
            Done(Uncaught("AssertionError", <<"api name the same, but class different?">>), st)
        ELSE Done(Ok, update_collab(st, SetAttrs(existing[1], self.edit_kwargs)))
    ELSE IF self.create THEN
        IF ConstructorAccepts(api, self.edit_kwargs)
        THEN Done(Ok, update_collab(st, Construct(api, self.edit_kwargs)))
        ELSE Done(Uncaught("TypeError", <<"__init__">>), st)
    ELSE Done(CommandError(<<"no such config! Did you mean to use --create?">>, "2"), st)

\* Mutant of UpdateCollabExecute: the stored api is not compared with the
\* command's.
UpdateCollabExecute_NoApiCheck(self, api, st) ==
    LET existing == get_collab(st, self.collab_name) IN
    IF existing # None THEN
        IF self.create THEN
            Done(CommandError(<<"there's an existing collaboration named",
                                self.collab_name>>, "2"), st)
        ELSE Done(Ok, update_collab(st, SetAttrs(existing[1], self.edit_kwargs)))
    ELSE IF self.create THEN
        IF ConstructorAccepts(api, self.edit_kwargs)
        THEN Done(Ok, update_collab(st, Construct(api, self.edit_kwargs)))
        ELSE Done(Uncaught("TypeError", <<"__init__">>), st)
    ELSE Done(CommandError(<<"no such config! Did you mean to use --create?">>, "2"), st)

(***************************************************************************)
(* _UpdateCollabCommand.execute                                            *)
(***************************************************************************)
UpdateCollabExecute(self, api, st) ==
    LET existing == get_collab(st, self.collab_name) IN
    IF existing # None THEN
        IF self.create THEN
            Done(CommandError(<<"there's an existing collaboration named",
                                self.collab_name>>, "2"), st)
        ELSE IF existing[1].api # api THEN
            Done(CommandError(<<"the existing collab is for the api, delete that one first",
                                existing[1].api>>, "2"), st)
        ELSE IF existing[1].cls # api THEN
            Done(Uncaught("AssertionError", <<"api name the same, but class different?">>), st)
        ELSE Done(Ok, update_collab(st, SetAttrs(existing[1], self.edit_kwargs)))
    ELSE IF self.create THEN
        IF ConstructorAccepts(api, self.edit_kwargs)
        THEN Done(Ok, update_collab(st, Construct(api, self.edit_kwargs)))
        ELSE Done(Uncaught("TypeError", <<"__init__">>), st)
    ELSE Done(CommandError(<<"no such config! Did you mean to use --create?">>, "2"), st)

\* One invocation of `config collab edit <api> ...`: argparse, __init__,
\* execute.
RunEdit(cmd, st) ==
    IF ~ArgparseAccepts(cmd) THEN Done(ArgparseError, st)
    ELSE LET self == UpdateCollabInit(cmd) IN
         IF self.exc # "none" THEN Done(Uncaught(self.exc, <<self.key>>), st)
         ELSE UpdateCollabExecute(self, cmd.api, st)

\* Mutant of RunDelete: a missing collab is not an error.
RunDelete_NoCheck(collab_name, st) ==
    LET collab == get_collab(st, collab_name) IN
    IF collab = None THEN Done(Ok, st)
    ELSE Done(Ok, delete_collab(st, collab[1]))

(***************************************************************************)
(* ConfigCollabDeleteCommand.execute                                       *)
(***************************************************************************)
RunDelete(collab_name, st) ==
    LET collab == get_collab(st, collab_name) IN
    IF collab = None THEN Done(CommandError(<<"No such collab">>, "2"), st)
    ELSE Done(Ok, delete_collab(st, collab[1]))

(***************************************************************************)
(* ConfigThreatExchangeAPICommand.execute_import.  The remote privacy      *)
(* groups are 1..MaxGroup; groups of the same parity share a name.         *)
(***************************************************************************)
PrivacyGroups == 1..MaxGroup

get_privacy_group(id) ==
    [id |-> id, name |-> IF id % 2 = 1 THEN Str("a") ELSE Str("b")]

\* Mutant of RunImport: the name is not looked up first.
RunImport_NoCheck(privacy_group_id, st) ==
    LET pg == get_privacy_group(privacy_group_id) IN
    Done(Ok, update_collab(st,
            Construct(FB, Put(Put(EmptyDict, "name", pg.name),
                              "privacy_group", privacy_group_id))))

RunImport(privacy_group_id, st) ==
    LET pg == get_privacy_group(privacy_group_id) IN
    IF get_collab(st, pg.name) # None THEN
        Done(CommandError(<<"A collaboration already exists with the name", pg.name>>,
                          "2"), st)
    ELSE Done(Ok, update_collab(st,
                Construct(FB, Put(Put(EmptyDict, "name", pg.name),
                                  "privacy_group", privacy_group_id))))

(***************************************************************************)
(* ConfigExtensionsCommand.  A module reference is either Unloadable (its  *)
(* manifest does not load) or a record holding the manifest the module     *)
(* declares.  An API type has a name and may raise when constructed        *)
(* without arguments.                                                      *)
(***************************************************************************)
ApiType(n, r) == [name |-> n, raises |-> r]

ApiTypes == {ApiType(n, r) : n \in {"api_p", FB}, r \in BOOLEAN}

SeqsUpTo(S, n) == UNION {[1..k -> S] : k \in 0..n}

Manifest(c, s, a) == [content_types |-> c, signal_types |-> s, apis |-> a]

Unloadable == [unloadable |-> TRUE]

Modules ==
    {Unloadable} \cup
    {[manifest |-> Manifest(c, s, a)] :
        c \in {<<>>, <<"photo">>},
        s \in {<<>>, <<"pdq">>, <<"sig_new">>},
        a \in SeqsUpTo(ApiTypes, MaxManifestApis)}

Range(f) == {f[i] : i \in DOMAIN f}

NoDuplicates(names) == \A i, j \in DOMAIN names : names[i] = names[j] => i = j

\* The registry the settings expose: the built-in types and API instances
\* plus those of the installed extensions.
InstalledManifests(ext) == {m.manifest : m \in ext}

get_all_content_types(ext) ==
    {"photo"} \cup UNION {Range(mf.content_types) : mf \in InstalledManifests(ext)}

get_all_signal_types(ext) ==
    {"pdq"} \cup UNION {Range(mf.signal_types) : mf \in InstalledManifests(ext)}

apis_get_all(ext) ==
    {FB, BASE} \cup
    UNION {{t.name : t \in Range(mf.apis)} : mf \in InstalledManifests(ext)}

\* tx_meta.SignalTypeMapping(content_types, signal_types) and
\* tx_meta.FetcherMapping(apis): building fails on a duplicate name.
SignalTypeMappingBuilds(current_content, new_content, current_signal, new_signal) ==
    /\ NoDuplicates(new_content) /\ Range(new_content) \cap current_content = {}
    /\ NoDuplicates(new_signal) /\ Range(new_signal) \cap current_signal = {}

FetcherMappingBuilds(new_apis, current_apis) ==
    /\ NoDuplicates([i \in DOMAIN new_apis |-> new_apis[i].name])
    /\ {t.name : t \in Range(new_apis)} \cap current_apis = {}

MappingError == [exc |-> "ValidationError", msg |-> <<"duplicate registration">>, code |-> "2"]

get_manifest_fails(module) == module = Unloadable

\* The first API type of the manifest whose constructor raises (0 if none):
\* the loop over manifest.apis stops there.
FirstRaising(apis) ==
    IF \E i \in DOMAIN apis : apis[i].raises
    THEN CHOOSE i \in DOMAIN apis :
            apis[i].raises /\ \A j \in DOMAIN apis : apis[j].raises => i <= j
    ELSE 0

DoneExt(res, ext) == [result |-> res, extensions |-> ext]

\* Mutant of execute_add: the module is persisted before the APIs are
\* constructed.
execute_add_PersistFirst(module, ext) ==
    IF module = None THEN DoneExt(CommandError(<<"module is required">>, "2"), ext)
    ELSE IF get_manifest_fails(module[1]) THEN
        DoneExt(CommandError(<<"ValueError from load_from_module_name">>, "2"), ext)
    ELSE
    LET manifest == module[1].manifest IN
    IF ~SignalTypeMappingBuilds(get_all_content_types(ext), manifest.content_types,
                                get_all_signal_types(ext), manifest.signal_types)
    THEN DoneExt(MappingError, ext)
    ELSE IF FirstRaising(manifest.apis) # 0 THEN
        DoneExt(CommandError(<<"Not able to instanciate API",
                               manifest.apis[FirstRaising(manifest.apis)].name>>,
                             "default"), ext \cup {module[1]})
    ELSE IF ~FetcherMappingBuilds(manifest.apis, apis_get_all(ext)) THEN
        DoneExt(MappingError, ext \cup {module[1]})
    ELSE DoneExt(Ok, ext \cup {module[1]})

\* Mutant of execute_remove: set.discard instead of the membership test.
execute_remove_Discard(module, ext) ==
    IF module = None THEN
        DoneExt(CommandError(<<"Which module you are remove is required">>, "2"), ext)
    ELSE DoneExt(Ok, ext \ {module[1]})

\* module is Optional: the positional is nargs="?".
execute_add(module, ext) ==
    IF module = None THEN DoneExt(CommandError(<<"module is required">>, "2"), ext)
    ELSE IF get_manifest_fails(module[1]) THEN
        DoneExt(CommandError(<<"ValueError from load_from_module_name">>, "2"), ext)
    ELSE
    LET manifest == module[1].manifest IN
    IF ~SignalTypeMappingBuilds(get_all_content_types(ext), manifest.content_types,
                                get_all_signal_types(ext), manifest.signal_types)
    THEN DoneExt(MappingError, ext)
    ELSE IF FirstRaising(manifest.apis) # 0 THEN
        DoneExt(CommandError(<<"Not able to instanciate API",
                               manifest.apis[FirstRaising(manifest.apis)].name>>,
                             "default"), ext)
    ELSE IF ~FetcherMappingBuilds(manifest.apis, apis_get_all(ext)) THEN
        DoneExt(MappingError, ext)
    ELSE DoneExt(Ok, ext \cup {module[1]})

execute_remove(module, ext) ==
    IF module = None THEN
        DoneExt(CommandError(<<"Which module you are remove is required">>, "2"), ext)
    ELSE IF module[1] \notin ext THEN
        DoneExt(CommandError(<<"You haven't added", module[1]>>, "2"), ext)
    ELSE DoneExt(Ok, ext \ {module[1]})

execute_list(module, ext) ==
    IF module # None /\ get_manifest_fails(module[1]) THEN
        DoneExt(CommandError(<<"ValueError from load_from_module_name">>, "2"), ext)
    ELSE DoneExt(Ok, ext)

(***************************************************************************)
(* The command lines the model issues                                      *)
(***************************************************************************)
StoreApis == {FB, BASE}

FlagValues(fname) ==
    CASE fname = "privacy_group" -> PrivacyGroups
      [] fname = "x" -> 1..MaxX

Namespaces(api) ==
    {ns \in [ArgumentFlags(api) -> Opt(1..(MaxGroup + MaxX))] :
        \A f \in ArgumentFlags(api) : ns[f] \in Opt(FlagValues(f))}

\* JSON payloads of the store commands: the empty object, and an object
\* naming the collab a with an api member.
StoreJsonTexts ==
    {JsonText(EmptyDict),
     JsonText(JsonObject(Some(Str("a")), None, Some(FB), None))}

Cmd(api, cn, cr, en, js, ns) ==
    [api |-> api, collab_name |-> cn, create |-> cr, enable |-> en,
     is_json |-> js, namespace |-> ns]

\* The positional argument: a literal name, or with --json any text (the
\* bare word a is not JSON).
Positionals(is_json) ==
    IF is_json THEN {Str("a"), ListJson} \cup StoreJsonTexts ELSE PlainNames

EditCmds ==
    UNION {{Cmd(api, cn, cr, en, js, ns) :
                cn \in Positionals(js), cr \in BOOLEAN, en \in Opt({0, 1}),
                ns \in Namespaces(api)} :
           api \in StoreApis, js \in BOOLEAN}

\* Every name a store command can look up or persist.
Names == PlainNames \cup StoreJsonTexts

NoArgs == Cmd(BASE, Str("a"), FALSE, None, FALSE, EmptyDict)
Pending == [exc |-> "pending", key |-> "", collab_name |-> Str("a"), create |-> FALSE,
            edit_kwargs |-> EmptyDict]

(***************************************************************************)
(* Spec: the collab commands, one invocation per step                      *)
(***************************************************************************)
Init ==
    /\ store = {}
    /\ extensions = {}
    /\ op = "start"
    /\ result = Ok
    /\ args = NoArgs
    /\ resolved = Pending

Edit ==
    \E cmd \in EditCmds :
        /\ LET out == RunEdit(cmd, store) IN
           /\ Cardinality(out.store) <= MaxCollabs
           /\ store' = out.store
           /\ result' = out.result
        /\ op' = "collab edit"
        /\ UNCHANGED <<extensions, args, resolved>>

Delete ==
    \E collab_name \in Names :
        /\ LET out == RunDelete(collab_name, store) IN
           /\ store' = out.store
           /\ result' = out.result
        /\ op' = "collab delete"
        /\ UNCHANGED <<extensions, args, resolved>>

Import ==
    \E id \in PrivacyGroups :
        /\ LET out == RunImport(id, store) IN
           /\ Cardinality(out.store) <= MaxCollabs
           /\ store' = out.store
           /\ result' = out.result
        /\ op' = "api import"
        /\ UNCHANGED <<extensions, args, resolved>>

ListCollabs ==
    /\ op' = "collab list"
    /\ result' = Ok
    /\ UNCHANGED <<store, extensions, args, resolved>>

Next == Edit \/ Delete \/ Import \/ ListCollabs

Spec == Init /\ [][Next]_vars

(***************************************************************************)
(* SpecExt: the extensions commands                                        *)
(***************************************************************************)
ExtAdd ==
    \E module \in Opt(Modules) :
        /\ LET out == execute_add(module, extensions) IN
           /\ extensions' = out.extensions
           /\ result' = out.result
        /\ op' = "extensions add"
        /\ UNCHANGED <<store, args, resolved>>

ExtRemove ==
    \E module \in Opt(Modules) :
        /\ LET out == execute_remove(module, extensions) IN
           /\ extensions' = out.extensions
           /\ result' = out.result
        /\ op' = "extensions remove"
        /\ UNCHANGED <<store, args, resolved>>

ExtList ==
    \E module \in Opt(Modules) :
        /\ LET out == execute_list(module, extensions) IN
           /\ extensions' = out.extensions
           /\ result' = out.result
        /\ op' = "extensions list"
        /\ UNCHANGED <<store, args, resolved>>

NextExt == ExtAdd \/ ExtRemove \/ ExtList

SpecExt == Init /\ [][NextExt]_vars

(***************************************************************************)
(* SpecResolve: the edit-set resolver alone, on every parsed command line  *)
(* of a wider input set (JSON payloads with enabled and x members, the     *)
(* API whose config has a defaulted field x)                               *)
(***************************************************************************)
ResolveJsonTexts ==
    {JsonText(JsonObject(n, e, a, x)) :
        n \in Opt({Str("a")}), e \in Opt(BOOLEAN), a \in Opt({FB}), x \in Opt(1..MaxX)}

ResolveCmds ==
    UNION {{Cmd(api, cn, cr, en, js, ns) :
                cn \in (IF js THEN {Str("a"), ListJson} \cup ResolveJsonTexts
                        ELSE PlainNames),
                cr \in BOOLEAN, en \in Opt({0, 1}),
                ns \in Namespaces(api)} :
           api \in {FB, BASE, XAPI}, js \in BOOLEAN}

InitResolve ==
    /\ store = {}
    /\ extensions = {}
    /\ op = "start"
    /\ result = Ok
    /\ args \in {cmd \in ResolveCmds : ArgparseAccepts(cmd)}
    /\ resolved = Pending

Resolve ==
    /\ resolved = Pending
    /\ resolved' = UpdateCollabInit(args)
    /\ UNCHANGED <<store, extensions, op, result, args>>

NextResolve == Resolve

SpecResolve == InitResolve /\ [][NextResolve]_vars

(***************************************************************************)
(* Properties                                                              *)
(***************************************************************************)
\* An edit command line that argparse accepts and whose __init__ returns
\* has an edit set; Resolves(cmd) says so.
Resolves(cmd) == ArgparseAccepts(cmd) /\ UpdateCollabInit(cmd).exc = "none"

Identifier(cmd) == UpdateCollabInit(cmd).collab_name

NamesIn(st) == {r.name : r \in st}

DuplicateName(res) ==
    /\ res.exc = "CommandError" /\ res.code = "2"
    /\ res.msg[1] = "there's an existing collaboration named"

CrossApi(res) ==
    /\ res.exc = "CommandError" /\ res.code = "2"
    /\ res.msg[1] = "the existing collab is for the api, delete that one first"

NoSuchConfig(res) ==
    /\ res.exc = "CommandError" /\ res.code = "2"
    /\ res.msg[1] = "no such config! Did you mean to use --create?"

\* C1: in every reachable store, every --create edit command that has an
\* edit set and whose identifier names a record of the store ends with the
\* duplicate-name CommandError (returncode 2, naming the identifier) and
\* leaves the store exactly as it was.
C1_CreateExistingFails ==
    \A cmd \in EditCmds :
        (cmd.create /\ Resolves(cmd) /\ get_collab(store, Identifier(cmd)) # None)
        => LET out == RunEdit(cmd, store) IN
           /\ DuplicateName(out.result)
           /\ out.result.msg[2] = Identifier(cmd)
           /\ out.store = store

\* C1 witness: a --create edit has just failed on a duplicate name.
C1_Witness ==
    /\ op = "collab edit"
    /\ DuplicateName(result)
    /\ result.msg[2] \in NamesIn(store)

\* C2: in every reachable store, every edit command without --create that has
\* an edit set and whose identifier names a record stored under another API
\* than the command's ends with the cross-API CommandError (returncode 2) and
\* leaves the store, and so every field of that record, as it was.
C2_CrossApiEditFails ==
    \A cmd \in EditCmds :
        (~cmd.create /\ Resolves(cmd)
            /\ get_collab(store, Identifier(cmd)) # None
            /\ get_collab(store, Identifier(cmd))[1].api # cmd.api)
        => LET out == RunEdit(cmd, store) IN
           /\ CrossApi(out.result)
           /\ out.result.msg[2] = get_collab(store, Identifier(cmd))[1].api
           /\ out.store = store

\* C2 witness: an edit has just failed on a record of another API, which is
\* still in the store.
C2_Witness ==
    /\ op = "collab edit"
    /\ CrossApi(result)
    /\ \E r \in store : r.api = result.msg[2]

\* C3 (as claimed): every record in the store has the api it was created
\* with.  A record is created by its config class, which gives it the api of
\* that class (cls), so the claim is that api = cls in every stored record.
C3_ApiNeverChanges == \A r \in store : r.api = r.cls

\* C4: edit-set precedence.  Whenever __init__ returns, the edit set gives
\* every typed flag that was supplied the flag's value; gives every JSON
\* member that is no identity field and was not supplied as a flag the JSON
\* value; sets enabled to the --enable/--disable value when one was supplied;
\* and outside create mode keeps the JSON's enabled when no toggle was given.
C4_Precedence ==
    resolved.exc = "none" =>
        LET kw == resolved.edit_kwargs
            ns == args.namespace
            json == IF args.is_json THEN JsonLoads(args.collab_name).val ELSE EmptyDict
        IN
        /\ \A f \in DOMAIN ns : ns[f] # None => (f \in DOMAIN kw /\ kw[f] = ns[f][1])
        /\ \A k \in DOMAIN json \ {"name", "api", "enabled"} :
              (k \notin DOMAIN ns \/ ns[k] = None) => (k \in DOMAIN kw /\ kw[k] = json[k])
        /\ args.enable # None =>
              ("enabled" \in DOMAIN kw /\ kw["enabled"] = (args.enable[1] = 1))
        /\ (args.enable = None /\ ~args.create /\ "enabled" \in DOMAIN json) =>
              ("enabled" \in DOMAIN kw /\ kw["enabled"] = json["enabled"])

\* C4 witness: the spec's example, JSON {name: a, enabled: false, x: 1} with
\* --x=2 --enable, has resolved to enabled = TRUE and x = 2.
C4_Witness ==
    /\ resolved.exc = "none"
    /\ args.is_json
    /\ args.collab_name = JsonText(JsonObject(Some(Str("a")), Some(FALSE), None, Some(1)))
    /\ args.api = XAPI
    /\ args.namespace["x"] = Some(2)
    /\ args.enable = Some(1)
    /\ resolved.edit_kwargs["enabled"] = TRUE
    /\ resolved.edit_kwargs["x"] = 2

\* C5 (as claimed): every edit command without --create whose identifier (the
\* literal positional) names no record ends with the no-such-record
\* CommandError and leaves the store unchanged.
C5_EditMissingFails ==
    \A cmd \in EditCmds :
        (~cmd.create /\ ~cmd.is_json /\ ArgparseAccepts(cmd)
            /\ get_collab(store, cmd.collab_name) = None)
        => LET out == RunEdit(cmd, store) IN
           /\ NoSuchConfig(out.result)
           /\ out.store = store

\* C6: deleting a name that is not in the store ends with the not-found
\* CommandError and leaves the store unchanged; deleting a name that is in
\* the store returns, the record of that name is gone and the other records
\* are exactly the ones that were there.
C6_Delete ==
    \A n \in Names :
        LET out == RunDelete(n, store) IN
        IF n \notin NamesIn(store)
        THEN /\ out.result = CommandError(<<"No such collab">>, "2")
             /\ out.store = store
        ELSE /\ out.result = Ok
             /\ out.store = {r \in store : r.name # n}
             /\ Cardinality(out.store) = Cardinality(store) - 1

\* C6 witness: a delete has just removed a record and another one remains.
C6_Witness ==
    /\ op = "collab delete"
    /\ result = Ok
    /\ Cardinality(store) = 1

\* C9 (as claimed): every user-input or validation failure of a collab
\* command, malformed JSON and JSON without a name included, is reported as
\* a user error with returncode 2.
UserInputFailure(res) ==
    \/ res.exc \in {"CommandError", "SystemExit", "JSONDecodeError"}
    \/ res.exc = "KeyError" /\ res.msg = <<"name">>

C9_FailuresExitTwo == UserInputFailure(result) => result.code = "2"

\* C10: importing a privacy group whose name is not in the store returns,
\* and the store is the old store plus exactly one record, an
\* fb_threatexchange collab named after the group; importing one whose name
\* is in the store ends with a CommandError (returncode 2) and leaves the
\* store unchanged.
C10_Import ==
    \A id \in PrivacyGroups :
        LET pg == get_privacy_group(id)
            out == RunImport(id, store)
        IN
        IF pg.name \in NamesIn(store)
        THEN /\ out.result.exc = "CommandError" /\ out.result.code = "2"
             /\ out.store = store
        ELSE /\ out.result = Ok
             /\ store \subseteq out.store
             /\ Cardinality(out.store) = Cardinality(store) + 1
             /\ \A r \in out.store \ store :
                   r.name = pg.name /\ r.privacy_group = id /\ r.api = FB

\* C10 witness: an import has just added a record beside an existing one.
C10_Witness ==
    /\ op = "api import"
    /\ result = Ok
    /\ Cardinality(store) = 2
    /\ \E r \in store : r.cls = FB /\ r.name = get_privacy_group(r.privacy_group).name

\* C7: extension add is validate-then-apply.  For every module whose
\* manifest loads: if the combined type mapping or the combined API mapping
\* does not build, or an API type raises when constructed, the add fails and
\* the persisted list is unchanged; when the constructor loop is what fails,
\* the error is the CommandError naming the API type that raised; the list
\* changes only by gaining the module, and only when every step succeeded.
C7_ValidateThenApply ==
    \A m \in Modules \ {Unloadable} :
        LET mf == m.manifest
            out == execute_add(Some(m), extensions)
            typesOk == SignalTypeMappingBuilds(get_all_content_types(extensions),
                                               mf.content_types,
                                               get_all_signal_types(extensions),
                                               mf.signal_types)
            raising == {i \in DOMAIN mf.apis : mf.apis[i].raises}
            apisOk == FetcherMappingBuilds(mf.apis, apis_get_all(extensions))
            valid == typesOk /\ raising = {} /\ apisOk
        IN
        /\ ~valid => (out.result.exc # "none" /\ out.extensions = extensions)
        /\ (typesOk /\ raising # {}) =>
              /\ out.result.exc = "CommandError"
              /\ out.result.msg[1] = "Not able to instanciate API"
              /\ \E i \in raising : out.result.msg[2] = mf.apis[i].name
        /\ valid => (out.result = Ok /\ out.extensions = extensions \cup {m})

\* C7 witness: an add has just failed on an API type that raises, with an
\* extension already installed and still the only one in the list.
C7_Witness ==
    /\ op = "extensions add"
    /\ result.exc = "CommandError"
    /\ result.msg[1] = "Not able to instanciate API"
    /\ Cardinality(extensions) = 1

\* C8: removing a module that is not in the persisted list fails and leaves
\* the list unchanged; removing one that is in it returns with the list
\* minus that module, and removing it again from that list fails.
C8_Remove ==
    \A m \in Modules :
        LET out == execute_remove(Some(m), extensions) IN
        IF m \notin extensions
        THEN /\ out.result = CommandError(<<"You haven't added", m>>, "2")
             /\ out.extensions = extensions
        ELSE /\ out.result = Ok
             /\ out.extensions = extensions \ {m}
             /\ LET again == execute_remove(Some(m), out.extensions) IN
                /\ again.result.exc = "CommandError"
                /\ again.extensions = out.extensions

\* C8 witness: a remove has just succeeded and another module remains.
C8_Witness ==
    /\ op = "extensions remove"
    /\ result = Ok
    /\ extensions # {}

\* C11 (as claimed): in every reachable store, every --create edit command,
\* with or without --json, that succeeds persists a record whose name is the
\* identifier the mediator looked up (the literal positional in plain mode,
\* the JSON payload's name member in JSON mode) and whose api is the
\* command's target API, and the edit set it was built from names that
\* identifier.
C11_CreatePersistsIdentifier ==
    \A cmd \in EditCmds :
        (cmd.create /\ Resolves(cmd) /\ RunEdit(cmd, store).result = Ok)
        => LET out == RunEdit(cmd, store)
               self == UpdateCollabInit(cmd)
           IN
           /\ self.edit_kwargs["name"] = self.collab_name
           /\ self.edit_kwargs["enabled"] = (cmd.enable = None \/ cmd.enable = Some(1))
           /\ get_collab(out.store, self.collab_name) # None
           /\ get_collab(out.store, self.collab_name)[1].name = self.collab_name
           /\ get_collab(out.store, self.collab_name)[1].api = cmd.api

\* The identifier an edit command names: the literal positional in plain
\* mode, the JSON payload's name member in JSON mode (None if it has none).
NamedIdentifier(cmd) ==
    IF ~cmd.is_json THEN Some(cmd.collab_name)
    ELSE IF "name" \in DOMAIN JsonLoads(cmd.collab_name).val
    THEN Some(JsonLoads(cmd.collab_name).val["name"])
    ELSE None

\* The fields an edit command supplies in some layer: the JSON payload's
\* members, enabled if a toggle was given, and the typed flags given.
SuppliedFields(cmd) ==
    (IF cmd.is_json THEN DOMAIN JsonLoads(cmd.collab_name).val ELSE {})
    \cup (IF cmd.enable # None THEN {"enabled"} ELSE {})
    \cup {f \in DOMAIN cmd.namespace : cmd.namespace[f] # None}

\* C12 (as claimed): in every reachable store, every edit command without
\* --create that names an existing record of the command's own API succeeds,
\* whichever of the schema's typed flags it supplies or omits (those without
\* a default included): every key of its edit set is assigned onto the
\* record, the record is persisted under its name, every field supplied in no
\* layer keeps its previous value, and no other record changes.
C12_PartialEditSucceeds ==
    \A cmd \in EditCmds :
        (/\ ~cmd.create
         /\ NamedIdentifier(cmd) # None
         /\ get_collab(store, NamedIdentifier(cmd)[1]) # None
         /\ get_collab(store, NamedIdentifier(cmd)[1])[1].api = cmd.api)
        => LET id == NamedIdentifier(cmd)[1]
               old == get_collab(store, id)[1]
               out == RunEdit(cmd, store)
               kw == UpdateCollabInit(cmd).edit_kwargs
           IN
           /\ out.result = Ok
           /\ get_collab(out.store, id) # None
           /\ \A k \in DOMAIN kw : get_collab(out.store, id)[1][k] = kw[k]
           /\ \A k \in DOMAIN old \ SuppliedFields(cmd) :
                  get_collab(out.store, id)[1][k] = old[k]
           /\ {r \in out.store : r.name # id} = {r \in store : r.name # id}

====
